---- MODULE Spec2Model ----
(***************************************************************************)
(* Piano roll of the Arduino pitch detector (pianoroll.cpp): the geometry  *)
(* functions _time2x and _pitch2y, the grid renderer _displayRoll and the  *)
(* entry points PianoRoll::begin, PianoRoll::clear and PianoRoll::show.    *)
(*                                                                         *)
(* Coordinates and times are modelled as mathematical integers: the types  *)
(* xCoordinate_t, yCoordinate_t and absoluteTime_t are declared in headers *)
(* that are not part of pianoroll.cpp.  The inputs are kept where that     *)
(* choice cannot matter: no event time handed to _time2x lies before       *)
(* msecStart (the subtraction t - _msecStart never goes below zero), and   *)
(* the display is wider than the label margin and narrower than            *)
(* msecOnScreen pixels (the divisions in _resize and _time2x are defined). *)
(* The calls made on the display driver are recorded, in order, in cmds.   *)
(***************************************************************************)
EXTENDS Integers, Sequences, FiniteSets

VARIABLES
    started,             \* _tft is instantiated (begin has run)
    millis,              \* the last value returned by millis()
    minSegmentDuration,  \* Config::MIN_SEGMENT_DURATION, fixed for the process lifetime
    display,             \* _display  {width, height}
    distance,            \* _distance {pitch2pitch, bottom2loPitch}
    msecPerPixel,        \* _msecPerPixel
    msecOnScreen,        \* _msecOnScreen
    msecStart,           \* _msecStart
    op,                  \* the entry point that ran last
    now,                 \* show: now
    lastOffset,          \* show: parameter lastOffset
    segmentBuf,          \* show: the segment history, newest first
    cursor,              \* show: cursor
    wipe,                \* show: wipe
    drawInMsec,          \* show: drawInMsec
    drawInPixels,        \* show: drawInPixels
    args,                \* the arguments of a direct call of _time2x or _displayRoll
    result,              \* the value a direct call of _time2x returned
    cmds                 \* the display driver calls issued by the last operation

geometry == <<display, distance, msecPerPixel, msecOnScreen>>
frame    == <<now, lastOffset, segmentBuf, cursor, wipe, drawInMsec, drawInPixels>>
vars     == <<started, millis, minSegmentDuration, geometry, msecStart, op, frame,
              args, result, cmds>>

----------------------------------------------------------------------------
(* Program constants *)

CHAR_WIDTH  == 6
CHAR_HEIGHT == 8
X_FIRSTNOTE == 2 * CHAR_WIDTH

PITCH_MIN == 40
PITCH_MAX == 52

noteNr_C == 0
noteNr_G == 7

startLen == 2

maxLoopTime == 60

----------------------------------------------------------------------------
(* Bounds and input sets *)

MaxSegments == 2

MaxXLeft == 14

MaxXWidth == 6

\* times at which begin ran, for the direct calls of the geometry functions
StartTimes == {0, 100}

\* event times, relative to msecStart, and left-edge times handed to _time2x
TimeDeltas == {0, 1, 18, 19, 20, 27, 28, 29, 500, 2911, 2912, 2931, 3000}

LeftTimes == {0, 1, 19, 100, 2912}

\* values millis() returns: just after a clear, mid screen, the last columns
\* of a sweep, the tick of a wraparound and the first ticks after it, a third sweep
TimePoints == {0, 100, 1500, 2900, 2912, 3000, 5900}

\* sizes the display driver reports (160 x 128 is the ST7735 in landscape)
DisplaySizes == { <<160, 128>>, <<116, 130>> }

MinSegmentDurations == {40, 3000}

Segments == { [pitch |-> 40, duration |-> 10,  onset |-> 0],
              [pitch |-> 52, duration |-> 200, onset |-> 60] }

RECURSIVE SeqsUpTo(_, _)
SeqsUpTo(S, k) ==
    IF k = 0 THEN { <<>> }
    ELSE LET shorter == SeqsUpTo(S, k - 1)
         IN  shorter \cup { Append(s, e) : s \in shorter, e \in S }

SegmentBufs == SeqsUpTo(Segments, MaxSegments)

\* how long before the tick the newest segment ended
LastOffsetLags == {0, 150}

----------------------------------------------------------------------------
(* Helpers *)

Min(a, b) == IF a < b THEN a ELSE b

Cmd(o, x, y, w, h, c, ch) ==
    [op |-> o, x |-> x, y |-> y, w |-> w, h |-> h, c |-> c, ch |-> ch]

fillRect(x, y, w, h, c)       == Cmd("fillRect", x, y, w, h, c, 0)
drawFastHLine(x, y, w, c)     == Cmd("drawFastHLine", x, y, w, 1, c, 0)
drawFastVLine(x, y, h, c)     == Cmd("drawFastVLine", x, y, 1, h, c, 0)
drawChar(x, y, ch, c)         == Cmd("drawChar", x, y, CHAR_WIDTH, CHAR_HEIGHT, c, ch)
fillScreen(c)                 == Cmd("fillScreen", 0, 0, display.width, display.height, c, 0)

\* SegmentBuf::headPtr: the ii-th most recent segment (ii from 0), or none
NoSegment == [pitch |-> -1, duration |-> -1, onset |-> -1]
headPtr(buf, ii) == IF ii < Len(buf) THEN buf[ii + 1] ELSE NoSegment

----------------------------------------------------------------------------
(* Geometry *)

nrOfPos == PITCH_MAX - PITCH_MIN + 1

Pitch2pitch(height) == height \div nrOfPos

Bottom2loPitch(height) == (height - nrOfPos * Pitch2pitch(height)) \div 2

MsecPerPixel(width) == 2912 \div (width - X_FIRSTNOTE)

Resize(width, height) ==
    /\ display'      = [width |-> width, height |-> height]
    /\ distance'     = [pitch2pitch    |-> Pitch2pitch(height),
                        bottom2loPitch |-> Bottom2loPitch(height)]
    /\ msecOnScreen' = 2912
    /\ msecPerPixel' = MsecPerPixel(width)

Time2xNoEpoch(t, t0) ==
    LET dist == IF t > t0 THEN (t - t0) \div msecPerPixel ELSE 0
    IN  X_FIRSTNOTE + dist

Time2xNoMargin(t, t0) ==
    IF t - msecStart > t0 THEN (t - msecStart - t0) \div msecPerPixel ELSE 0

Time2x(t, t0) ==
    LET dist == IF t - msecStart > t0
                THEN (t - msecStart - t0) \div msecPerPixel
                ELSE 0
    IN  X_FIRSTNOTE + dist

Pitch2yRowAbove(pitch) ==
    LET diff == (pitch - PITCH_MIN + 1) * distance.pitch2pitch
    IN  display.height - distance.bottom2loPitch - diff

Pitch2y(pitch) ==
    LET diff == (pitch - PITCH_MIN) * distance.pitch2pitch
    IN  display.height - distance.bottom2loPitch - diff

----------------------------------------------------------------------------
(* Background grid *)

COLOR(isC, isG) == IF isC THEN "ROLLC" ELSE IF isG THEN "ROLLG" ELSE "ROLLOTHER"

\* one pass of the loop body of _displayRoll, for pitch ii
RollRow(xLeft, xWidth, ii) ==
    LET xRight == xLeft + xWidth
        nr     == ii % 12
        isC    == nr = noteNr_C
        isG    == nr = noteNr_G
        color  == COLOR(isC, isG)
        y      == Pitch2y(ii)
        octave == ii \div 12
        cY     == y - CHAR_HEIGHT \div 2 + 1
        labels == IF xLeft = 0 /\ (isC \/ isG)
                  THEN << drawChar(0, cY, IF isC THEN 67 ELSE 71, color),
                          drawChar(CHAR_WIDTH, cY, 48 + octave, color) >>
                  ELSE << >>
        x      == IF xLeft = 0 THEN X_FIRSTNOTE ELSE xLeft
    IN  labels \o << drawFastHLine(x, y, xRight - xLeft, color) >>

RECURSIVE RollFrom(_, _, _)
RollFrom(xLeft, xWidth, ii) ==
    IF ii > PITCH_MAX THEN << >>
    ELSE RollRow(xLeft, xWidth, ii) \o RollFrom(xLeft, xWidth, ii + 1)

DisplayRoll(xLeft, xWidth) == RollFrom(xLeft, xWidth, PITCH_MIN)

----------------------------------------------------------------------------
(* PianoRoll::show *)

WrapCount(t) == (t - msecStart) \div msecOnScreen

LeftTime(t) == WrapCount(t) * msecOnScreen

WipeWidth(cur) == Min(display.width \div 20, display.width - cur)

DrawInMsecNoClamp(cur) == minSegmentDuration + maxLoopTime

DrawInMsec(cur) ==
    Min(minSegmentDuration + maxLoopTime, (cur - X_FIRSTNOTE) * msecPerPixel)

\* (xCoordinate_t)drawInMsec / _msecPerPixel; the cast is taken to keep the value
DrawInPixels(dMsec) == dMsec \div msecPerPixel

\* the two rectangles of one pass of the while loop
NoteRects(note, offset, t0) ==
    LET onset   == offset - note.duration
        xLeft   == Time2x(onset, t0)
        xWidth  == Time2x(offset, t0) - xLeft
        yTop    == Pitch2y(note.pitch) + distance.pitch2pitch \div 2
        yHeight == distance.pitch2pitch
    IN  << fillRect(xLeft + startLen, yTop, xWidth - startLen, yHeight, "NOTE"),
           fillRect(xLeft, yTop, startLen, yHeight, "NOTESTART") >>

RECURSIVE NoteLoopNoGap(_, _, _, _, _, _)
NoteLoopNoGap(buf, ii, offset, t, dMsec, t0) ==
    LET note == headPtr(buf, ii)
    IN  IF note # NoSegment /\ offset > t - dMsec
        THEN NoteRects(note, offset, t0)
                 \o NoteLoopNoGap(buf, ii + 1, offset - note.duration, t, dMsec, t0)
        ELSE << >>

\* the while loop from pass ii on; t is now and dMsec is drawInMsec
RECURSIVE NoteLoop(_, _, _, _, _, _)
NoteLoop(buf, ii, offset, t, dMsec, t0) ==
    LET note == headPtr(buf, ii)
    IN  IF note # NoSegment /\ offset > t - dMsec
        THEN NoteRects(note, offset, t0)
                 \o NoteLoop(buf, ii + 1, (offset - note.duration) - note.onset,
                             t, dMsec, t0)
        ELSE << >>

\* every onset the while loop hands to _time2x is at or after msecStart
RECURSIVE OnsetsSinceStart(_, _, _, _)
OnsetsSinceStart(buf, ii, offset, bound) ==
    LET note == headPtr(buf, ii)
    IN  IF note # NoSegment /\ offset > bound
        THEN /\ offset - note.duration >= msecStart
             /\ OnsetsSinceStart(buf, ii + 1,
                                 (offset - note.duration) - note.onset, bound)
        ELSE TRUE

ShowCmds(t, off, buf) ==
    LET t0      == LeftTime(t)
        cur     == Time2x(t, t0)
        dMsec   == DrawInMsec(cur)
        dPixels == DrawInPixels(dMsec)
    IN  << fillRect(cur, 0, WipeWidth(cur), display.height, "BG"),
           drawFastVLine(cur + 1, 0, display.height, "CURSOR"),
           fillRect(cur - dPixels, 0, dPixels, display.height, "BG") >>
        \o DisplayRoll(cur - dPixels, dPixels)
        \o NoteLoop(buf, 0, off, t, dMsec, t0)

Show(t, off, buf) ==
    /\ started
    /\ t >= millis
    /\ off >= 0
    /\ OnsetsSinceStart(buf, 0, off, t - DrawInMsec(Time2x(t, LeftTime(t))))
    /\ millis'       = t
    /\ op'           = "show"
    /\ now'          = t
    /\ lastOffset'   = off
    /\ segmentBuf'   = buf
    /\ cursor'       = Time2x(t, LeftTime(t))
    /\ wipe'         = WipeWidth(cursor')
    /\ drawInMsec'   = DrawInMsec(cursor')
    /\ drawInPixels' = DrawInPixels(drawInMsec')
    /\ cmds'         = ShowCmds(t, off, buf)
    /\ UNCHANGED <<started, minSegmentDuration, geometry, msecStart, args, result>>

----------------------------------------------------------------------------
(* PianoRoll::clear and PianoRoll::begin *)

FrameReset ==
    /\ now' = 0 /\ lastOffset' = 0 /\ segmentBuf' = << >>
    /\ cursor' = 0 /\ wipe' = 0 /\ drawInMsec' = 0 /\ drawInPixels' = 0

ClearCmds == << fillScreen("BG") >> \o DisplayRoll(0, display.width)

Clear(t) ==
    /\ started
    /\ t >= millis
    /\ cmds'      = ClearCmds
    /\ msecStart' = t
    /\ millis'    = t
    /\ op'        = "clear"
    /\ FrameReset
    /\ UNCHANGED <<started, minSegmentDuration, geometry, args, result>>

Begin(t, width, height) ==
    /\ t >= millis
    /\ started'   = TRUE
    /\ Resize(width, height)
    /\ cmds'      = ClearCmds'
    /\ msecStart' = t
    /\ millis'    = t
    /\ op'        = "begin"
    /\ FrameReset
    /\ UNCHANGED <<minSegmentDuration, args, result>>

----------------------------------------------------------------------------
(* The program: begin, then any sequence of clear and show *)

Init ==
    /\ started = FALSE
    /\ millis = 0
    /\ minSegmentDuration \in MinSegmentDurations
    /\ display = [width |-> 0, height |-> 0]
    /\ distance = [pitch2pitch |-> 0, bottom2loPitch |-> 0]
    /\ msecPerPixel = 0
    /\ msecOnScreen = 0
    /\ msecStart = 0
    /\ op = "none"
    /\ now = 0 /\ lastOffset = 0 /\ segmentBuf = << >>
    /\ cursor = 0 /\ wipe = 0 /\ drawInMsec = 0 /\ drawInPixels = 0
    /\ args = << >>
    /\ result = 0
    /\ cmds = << >>

Next ==
    \/ \E t \in TimePoints, size \in DisplaySizes : Begin(t, size[1], size[2])
    \/ \E t \in TimePoints : Clear(t)
    \/ \E t \in TimePoints, lag \in LastOffsetLags, buf \in SegmentBufs :
          Show(t, t - lag, buf)

Spec == Init /\ [][Next]_vars

----------------------------------------------------------------------------
(* Direct calls of the geometry function and of the grid renderer, from    *)
(* the state begin leaves                                                  *)

InitBegun ==
    \E t \in StartTimes, size \in DisplaySizes :
        /\ started = TRUE
        /\ millis = t
        /\ minSegmentDuration \in MinSegmentDurations
        /\ display = [width |-> size[1], height |-> size[2]]
        /\ distance = [pitch2pitch    |-> Pitch2pitch(size[2]),
                       bottom2loPitch |-> Bottom2loPitch(size[2])]
        /\ msecPerPixel = MsecPerPixel(size[1])
        /\ msecOnScreen = 2912
        /\ msecStart = t
        /\ op = "begin"
        /\ now = 0 /\ lastOffset = 0 /\ segmentBuf = << >>
        /\ cursor = 0 /\ wipe = 0 /\ drawInMsec = 0 /\ drawInPixels = 0
        /\ args = << >>
        /\ result = 0
        /\ cmds = ClearCmds

CallTime2x(t, t0) ==
    /\ started
    /\ t >= msecStart
    /\ msecPerPixel >= 1
    /\ args'   = <<t, t0>>
    /\ result' = Time2x(t, t0)
    /\ op'     = "time2x"
    /\ UNCHANGED <<started, millis, minSegmentDuration, geometry, msecStart, frame, cmds>>

NextTime2x == \E d \in TimeDeltas, t0 \in LeftTimes : CallTime2x(msecStart + d, t0)

SpecTime2x == InitBegun /\ [][NextTime2x]_vars

CallDisplayRoll(xLeft, xWidth) ==
    /\ started
    /\ args' = <<xLeft, xWidth>>
    /\ cmds' = DisplayRoll(xLeft, xWidth)
    /\ op'   = "displayRoll"
    /\ UNCHANGED <<started, millis, minSegmentDuration, geometry, msecStart, frame, result>>

NextDisplayRoll ==
    \E xLeft \in 0..MaxXLeft, xWidth \in 0..MaxXWidth : CallDisplayRoll(xLeft, xWidth)

SpecDisplayRoll == InitBegun /\ [][NextDisplayRoll]_vars

----------------------------------------------------------------------------
(* Properties *)

\* the commands of the last show, by part
NotesBase == 3 + nrOfPos
BodyRect(i) == cmds[NotesBase + 2 * i - 1]
MarkRect(i) == cmds[NotesBase + 2 * i]
NrOfNoteRects == Len(cmds) - NotesBase

\* the end time of the i-th newest segment: lastOffset less the durations and
\* gaps of the segments newer than it
RECURSIVE SpanOfNewest(_, _)
SpanOfNewest(buf, k) ==
    IF k = 0 THEN 0
    ELSE SpanOfNewest(buf, k - 1) + buf[k].duration + buf[k].onset

OffsetOf(i) == lastOffset - SpanOfNewest(segmentBuf, i - 1)
OnsetOf(i)  == OffsetOf(i) - segmentBuf[i].duration
InWindow(i) == OffsetOf(i) > now - drawInMsec

\* the length of the longest newest-first prefix whose end times are all in the window
PaintedCount ==
    Cardinality({ k \in 1..Len(segmentBuf) : \A i \in 1..k : InWindow(i) })

\* C1: for t >= msecStart and msecPerPixel >= 1, time_to_x(t, t0) is X_FIRSTNOTE
\* when t - msecStart <= t0 and X_FIRSTNOTE + floor((t - msecStart - t0) / msecPerPixel)
\* otherwise, so it is never less than X_FIRSTNOTE.
C1_Time2xContract ==
    op = "time2x" =>
        LET t  == args[1]
            t0 == args[2]
            d  == t - msecStart - t0
            q  == result - X_FIRSTNOTE
        IN  /\ (t - msecStart <= t0) => result = X_FIRSTNOTE
            /\ (t - msecStart > t0) =>
                   (q * msecPerPixel <= d /\ d < (q + 1) * msecPerPixel)
            /\ result >= X_FIRSTNOTE

C1_Witness ==
    /\ op = "time2x"
    /\ msecStart > 0
    /\ args[1] - msecStart > args[2]
    /\ args[2] > 0
    /\ result > X_FIRSTNOTE + 1

\* C2: after resize with height >= PITCH_MAX - PITCH_MIN + 1, pitch_to_y is strictly
\* decreasing over [PITCH_MIN, PITCH_MAX] and every result is a row of the display,
\* 0 <= pitch_to_y(pitch) <= height - 1.
C2_PitchRowsOnSurface ==
    (started /\ display.height >= nrOfPos) =>
        /\ \A p, q \in PITCH_MIN..PITCH_MAX : p < q => Pitch2y(p) > Pitch2y(q)
        /\ \A p \in PITCH_MIN..PITCH_MAX :
               0 <= Pitch2y(p) /\ Pitch2y(p) <= display.height - 1

C4_TrailingWindowClamped ==
    op = "show" =>
        LET latency == minSegmentDuration + maxLoopTime
            room    == (cursor - X_FIRSTNOTE) * msecPerPixel
        IN  /\ (latency <= room) => drawInMsec = latency
            /\ (room <= latency) => drawInMsec = room
            /\ drawInMsec <= room
            /\ drawInPixels * msecPerPixel <= drawInMsec
            /\ drawInMsec < (drawInPixels + 1) * msecPerPixel
            /\ drawInPixels <= cursor - X_FIRSTNOTE
            /\ cmds[3].op = "fillRect"
            /\ cmds[3].x = cursor - drawInPixels
            /\ cmds[3].w = drawInPixels
            /\ cmds[3].x >= X_FIRSTNOTE
            /\ \A i \in 4..NotesBase :
                   /\ cmds[i].op = "drawFastHLine"
                   /\ cmds[i].x = cursor - drawInPixels
                   /\ cmds[i].w = drawInPixels

C4_Witness ==
    /\ op = "show"
    /\ WrapCount(now) >= 1
    /\ drawInPixels > 0
    /\ drawInMsec < minSegmentDuration + maxLoopTime
    /\ cmds[3].x = X_FIRSTNOTE

\* C5: in every refresh tick the wiped rectangle starts at the cursor column and has
\* width min(width / 20, width - cursor); the width is non-negative and
\* cursor + wipe <= width, so the wipe never extends past the right edge.
C5_WipeOnScreen ==
    op = "show" =>
        /\ cmds[1].op = "fillRect"
        /\ cmds[1].x = cursor
        /\ cmds[1].w = wipe
        /\ wipe = Min(display.width \div 20, display.width - cursor)
        /\ 0 <= wipe
        /\ cursor + wipe <= display.width

\* C6: a refresh tick paints exactly the longest newest-first prefix of the segment
\* history whose running end time is inside the trailing window: starting with
\* offset = lastOffset, segment i is painted iff it exists and offset > now -
\* drawInMsec, its onset is offset - duration and the next offset is onset -
\* segment.onset; the scan stops at the first segment that is missing or out of the
\* window, and an empty history draws no rectangle.
C6_PaintsNewestPrefix ==
    op = "show" =>
        /\ NrOfNoteRects = 2 * PaintedCount
        /\ \A i \in 1..PaintedCount :
               LET t0     == LeftTime(now)
                   xLeft  == Time2x(OnsetOf(i), t0)
                   xRight == Time2x(OffsetOf(i), t0)
                   yTop   == Pitch2y(segmentBuf[i].pitch) + distance.pitch2pitch \div 2
               IN  /\ BodyRect(i) = fillRect(xLeft + startLen, yTop,
                                             xRight - xLeft - startLen,
                                             distance.pitch2pitch, "NOTE")
                   /\ MarkRect(i) = fillRect(xLeft, yTop, startLen,
                                             distance.pitch2pitch, "NOTESTART")
        /\ (segmentBuf = << >>) => NrOfNoteRects = 0

C6_Witness ==
    /\ op = "show"
    /\ Len(segmentBuf) = 2
    /\ segmentBuf[1].onset > 0
    /\ PaintedCount = 2
    /\ NrOfNoteRects = 4

\* C7: draw_grid(xLeft, xWidth) draws, for every pitch from PITCH_MIN to PITCH_MAX,
\* exactly one horizontal line of length xWidth at row pitch_to_y(pitch) starting at
\* column max(xLeft, X_FIRSTNOTE), for every xLeft >= 0; the two-character labels
\* are drawn only when xLeft = 0 and only for rows whose pitch class is C or G.
IsHLine(c) == c.op = "drawFastHLine"
IsChar(c)  == c.op = "drawChar"

C7_GridLinesRightOfMargin ==
    op = "displayRoll" =>
        LET xLeft  == args[1]
            xWidth == args[2]
            lines  == SelectSeq(cmds, IsHLine)
            chars  == SelectSeq(cmds, IsChar)
            labelled == { p \in PITCH_MIN..PITCH_MAX : p % 12 \in {noteNr_C, noteNr_G} }
        IN  /\ Len(lines) = nrOfPos
            /\ \A k \in 1..nrOfPos :
                   /\ lines[k].y = Pitch2y(PITCH_MIN + k - 1)
                   /\ lines[k].w = xWidth
                   /\ lines[k].x = IF xLeft > X_FIRSTNOTE THEN xLeft ELSE X_FIRSTNOTE
            /\ Len(chars) = IF xLeft = 0 THEN 2 * Cardinality(labelled) ELSE 0
            /\ Len(cmds) = Len(lines) + Len(chars)

\* C8: the cursor column computed by a refresh at time now is X_FIRSTNOTE +
\* ((now - msecStart) mod msecOnScreen) / msecPerPixel: it wraps back to X_FIRSTNOTE
\* every msecOnScreen milliseconds since the last clear and is always a column of
\* the display, X_FIRSTNOTE <= cursor <= width - 1.
C8_CursorOnDisplay ==
    op = "show" =>
        /\ cursor = X_FIRSTNOTE + ((now - msecStart) % msecOnScreen) \div msecPerPixel
        /\ cmds[1].x = cursor
        /\ X_FIRSTNOTE <= cursor
        /\ cursor <= display.width - 1

\* C9: given segment pitches in [PITCH_MIN, PITCH_MAX], non-negative durations and
\* gaps and lastOffset <= now, no rectangle of a painted segment has a negative
\* width: xWidth = time_to_x(offset, t0) - time_to_x(onset, t0) >= 0 and the note
\* body width xWidth - startLen >= 0.
C9_NoNegativeWidth ==
    (/\ op = "show"
     /\ lastOffset <= now
     /\ \A i \in DOMAIN segmentBuf :
            /\ segmentBuf[i].pitch \in PITCH_MIN..PITCH_MAX
            /\ segmentBuf[i].duration >= 0
            /\ segmentBuf[i].onset >= 0) =>
        \A i \in 1..(NrOfNoteRects \div 2) :
            /\ BodyRect(i).w + startLen >= 0
            /\ BodyRect(i).w >= 0
            /\ MarkRect(i).w >= 0

\* C10: no refresh tick issues a drawing command that touches a column left of
\* X_FIRSTNOTE: the wipe, the cursor line, the trailing erase, the grid redraw (never
\* called with xLeft = 0, so never drawing labels) and every note rectangle start at
\* a column >= X_FIRSTNOTE, so the label margin painted by clear is left alone.
C10_MarginUntouched ==
    op = "show" =>
        \A i \in DOMAIN cmds :
            /\ cmds[i].op # "drawChar"
            /\ cmds[i].op # "fillScreen"
            /\ cmds[i].x >= X_FIRSTNOTE
            /\ cmds[i].x + Min(cmds[i].w, 0) >= X_FIRSTNOTE

C10_Witness ==
    /\ op = "show"
    /\ WrapCount(now) >= 1
    /\ drawInPixels > 0
    /\ NrOfNoteRects > 0
    /\ OnsetOf(1) - msecStart < LeftTime(now)
    /\ MarkRect(1).x = X_FIRSTNOTE

====
